---- MODULE Spec2Model ----
(***************************************************************************)
(* Model of src/App.js: the press-and-hold voice chat screen.               *)
(*                                                                         *)
(* The component state (messages, isRecording, isLoading, textToProcess,   *)
(* textRef) is driven by the button handlers, the recognizer callbacks     *)
(* registered at mount, the 1 s release timer and the continuation of the  *)
(* HTTP request.  Every await in the source is a suspension point: the     *)
(* part of a handler before the await and the part after it are separate   *)
(* actions, and the environment (recognizer, timers, backend, clock)       *)
(* chooses the interleaving.                                               *)
(*                                                                         *)
(* Strings are sequences of characters so that trim() is computed.         *)
(* Variables whose comment says "history" record what happened (which      *)
(* exchange appended a message, which session produced a text); no guard   *)
(* of the program reads them.                                              *)
(*                                                                         *)
(* The collaborators are modelled by what the component can observe:       *)
(*  - the recognizer runs one session at a time, Voice.start replaces the  *)
(*    session it had, and only the current session delivers events;        *)
(*  - the promises of Voice.stop settle in the order of the calls, each    *)
(*    either resolved or rejected;                                         *)
(*  - timers of equal delay fire in the order they were set;               *)
(*  - a request settles at any time after it was issued, in any order;     *)
(*  - the button delivers press and release alternately, a press only      *)
(*    while it is enabled (isLoading false), a release always;             *)
(*  - the handlers read isRecording and isLoading of the latest render,    *)
(*    the recognizer callbacks read the render they were registered in,    *)
(*    and textRef.current follows textToProcess one effect later.          *)
(***************************************************************************)
EXTENDS Integers, Sequences, FiniteSets, TLC

\* ---------------------------------------------------------------- bounds
\* Voice.start calls explored.
MaxSessions == 2
\* Largest value of Date.now() explored.
MaxClock == 1

\* ------------------------------------------------------------- constants
\* The strings the recognizer may deliver as e.value[0].
ResultTexts == { <<" ">>, <<" ", "a">> }
\* e.value of a result event: an empty list or a list whose first element
\* is a text.  NoValueEvent is an event without the value field.
ValueLists == { <<>> } \cup { <<t>> : t \in ResultTexts }
NoValueEvent == [isFinal |-> FALSE]
ResultEvents == { NoValueEvent } \cup { [isFinal |-> FALSE, value |-> v] : v \in ValueLists }
\* The reply strings the backend may return.
Replies == { <<"h", "i">> }
\* JavaScript's undefined, as a text distinct from every string above.
Undefined == <<"#undefined">>
\* The text of the system message appended by the catch block.
ErrorText == <<"Error connecting to server.">>
\* The value of textToProcess in the render whose closures are registered
\* with the recognizer (useState('') of the first render).
MountTextToProcess == <<>>

VARIABLES
  messages,       \* useState([]): sequence of [id, text, sender]
  isRecording,    \* useState(false)
  isLoading,      \* useState(false)
  textToProcess,  \* useState('')
  textRef,        \* useRef(''): textRef.current
  held,           \* the button is pressed (between onPressIn and onPressOut)
  now,            \* Date.now()
  session,        \* the recognizer's session: the one of the latest Voice.start
  nSessions,      \* number of Voice.start calls so far
  stops,          \* Voice.stop promises not yet settled, oldest first
  timers,         \* setTimeout callbacks not yet fired, oldest first
  requests,       \* axios.post calls, one per exchange
  alerts,         \* Alert.alert calls of the catch block (exchange ids)
  spoken,         \* Speech.speak calls
  msgX,           \* history: exchange that appended messages[i]
  textSession,    \* history: session whose result set textToProcess (0: none)
  refSession,     \* history: the same for textRef.current
  sentCurrent,    \* history: requests issued for text of the current session
  fresh           \* history: a result was delivered since the last request

vars == << messages, isRecording, isLoading, textToProcess, textRef, held, now,
           session, nSessions, stops, timers, requests, alerts, spoken,
           msgX, textSession, refSession, sentCurrent, fresh >>

\* ------------------------------------------------------------ pure parts
RECURSIVE TrimStart(_)
\* String.prototype.trim, leading part.
TrimStart(s) ==
  IF s = <<>> THEN <<>>
  ELSE IF Head(s) = " " THEN TrimStart(Tail(s)) ELSE s

RECURSIVE TrimEnd(_)
\* String.prototype.trim, trailing part.
TrimEnd(s) ==
  IF s = <<>> THEN <<>>
  ELSE IF s[Len(s)] = " " THEN TrimEnd(SubSeq(s, 1, Len(s) - 1)) ELSE s

\* A trim that forgets to strip.
TrimIdentity(s) == s

\* text.trim()
Trim(s) == TrimEnd(TrimStart(s))

\* A string is truthy when it is not empty.
Truthy(s) == s # <<>>

\* The guard of sendTextToBackend: !text || !text.trim()
IsBlankGuard(text) == ~Truthy(text) \/ ~Truthy(Trim(text))

\* A wrong update that puts the new message first.
PrependMessage(prev, msg) == <<msg>> \o prev

\* setMessages(prev => [...prev, msg])
AppendMessage(prev, msg) == Append(prev, msg)

\* A wrong user message that stores the trimmed text.
UserMsgTrimmed(text, t) == [id |-> t, text |-> Trim(text), sender |-> "user"]

\* const userMsg = { id: Date.now(), text: text, sender: 'user' }
UserMsg(text, t) == [id |-> t, text |-> text, sender |-> "user"]

\* const aiMsg = { id: Date.now() + 1, text: aiResponse, sender: 'ai' }
AiMsg(aiResponse, t) == [id |-> t + 1, text |-> aiResponse, sender |-> "ai"]

\* A wrong catch block that labels the error message as an assistant one.
ErrorMsgAsAi(t) == [id |-> t, text |-> ErrorText, sender |-> "ai"]

\* { id: Date.now(), text: 'Error connecting to server.', sender: 'system' }
ErrorMsg(t) == [id |-> t, text |-> ErrorText, sender |-> "system"]

\* A wrong request body that sends the trimmed text.
RequestBodyTrimmed(text) == [text |-> Trim(text)]

\* The JSON body of the POST: { text: text }
RequestBody(text) == [text |-> text]

\* response.reply ?? response.data.reply, for a response whose data is an
\* object: the axios response object has no reply field of its own.
AiResponse(data) == IF "reply" \in DOMAIN data THEN data.reply ELSE Undefined

\* The response bodies the backend may produce for a 2xx status:
\* an object with a reply string, or an object without the field.
ResponseBodies == { [reply |-> r] : r \in Replies } \cup { [other |-> <<>>] }

\* ----------------------------------------------------------------- init
\* No session: nothing to deliver, nothing to stop.
NoSession == [status |-> "none", stopCalled |-> FALSE, stopAwaited |-> FALSE]

Init ==
  /\ messages = <<>>
  /\ isRecording = FALSE
  /\ isLoading = FALSE
  /\ textToProcess = <<>>
  /\ textRef = <<>>
  /\ held = FALSE
  /\ now = 0
  /\ session = NoSession
  /\ nSessions = 0
  /\ stops = <<>>
  /\ timers = <<>>
  /\ requests = <<>>
  /\ alerts = <<>>
  /\ spoken = <<>>
  /\ msgX = <<>>
  /\ textSession = 0
  /\ refSession = 0
  /\ sentCurrent = 0
  /\ fresh = FALSE

\* ------------------------------------------------------- the recognizer
\* The recognizer runs one session at a time: Voice.start replaces the
\* session it had, and only the current session delivers events.
Active(s) == s.status \in { "starting", "started" }

\* Voice.start('en-US'): the recognizer opens a new session.
VoiceStart == [status |-> "starting", stopCalled |-> FALSE, stopAwaited |-> FALSE]

\* Voice.stop() is called: the request reaches the session if it is active.
VoiceStopCalled(s) == IF Active(s) THEN [s EXCEPT !.stopCalled = TRUE] ELSE s

\* The promise of a Voice.stop() call made for session target settled, and
\* the caller that awaited it resumes.
VoiceStopAwaited(s, target) ==
  IF Active(s) /\ s.stopCalled /\ target = nSessions
  THEN [s EXCEPT !.stopAwaited = TRUE] ELSE s

\* The session is over: the ended event was delivered.
Ended == [status |-> "ended", stopCalled |-> FALSE, stopAwaited |-> FALSE]

\* The session is over: the error event was delivered.
Failed == [status |-> "error", stopCalled |-> FALSE, stopAwaited |-> FALSE]

\* ---------------------------------------------------- sendTextToBackend
\* The synchronous part of sendTextToBackend(text), up to the await of
\* axios.post.  from is the session whose result produced text (history).
sendTextToBackend(text, from) ==
  IF IsBlankGuard(text)
  THEN UNCHANGED << isLoading, messages, msgX, textToProcess, textSession, requests,
                    sentCurrent, fresh >>
  ELSE /\ isLoading' = TRUE
       /\ messages' = AppendMessage(messages, UserMsg(text, now))
       /\ msgX' = Append(msgX, Len(requests) + 1)
       /\ textToProcess' = <<>>
       /\ textSession' = 0
       /\ requests' = Append(requests,
            [body |-> RequestBody(text), outcome |-> "pending", reply |-> Undefined])
       /\ sentCurrent' = IF from = nSessions THEN sentCurrent + 1 ELSE sentCurrent
       /\ fresh' = FALSE

\* ------------------------------------------------ recognizer callbacks
\* onSpeechStart: setIsRecording(true)
onSpeechStart ==
  /\ session.status = "starting"
  /\ session' = [session EXCEPT !.status = "started"]
  /\ isRecording' = TRUE
  /\ UNCHANGED << messages, isLoading, textToProcess, textRef, held, now, nSessions,
                  stops, timers, requests, alerts, spoken, msgX, textSession,
                  refSession, sentCurrent, fresh >>

\* A wrong onSpeechEnd that leaves isRecording as it is.
onSpeechEndKeepsRecording ==
  /\ Active(session)
  /\ session' = Ended
  /\ UNCHANGED << isRecording, isLoading, messages, msgX, textToProcess, textSession,
                  requests, sentCurrent, fresh >>
  /\ UNCHANGED << textRef, held, now, nSessions, stops, timers, alerts, spoken,
                  refSession >>

\* onSpeechEnd: setIsRecording(false), then the send guarded by the
\* textToProcess of the closure registered at mount.
onSpeechEnd ==
  /\ Active(session)
  /\ session' = Ended
  /\ isRecording' = FALSE
  /\ IF Truthy(Trim(MountTextToProcess))
     THEN sendTextToBackend(MountTextToProcess, 0)
     ELSE UNCHANGED << isLoading, messages, msgX, textToProcess, textSession, requests,
                       sentCurrent, fresh >>
  /\ UNCHANGED << textRef, held, now, nSessions, stops, timers, alerts, spoken,
                  refSession >>

\* A wrong onSpeechError that also drops the candidate text.
onSpeechErrorDropsText ==
  /\ Active(session)
  /\ session' = Failed
  /\ isRecording' = FALSE
  /\ textToProcess' = <<>>
  /\ UNCHANGED << messages, isLoading, textRef, held, now, nSessions,
                  stops, timers, requests, alerts, spoken, msgX, textSession,
                  refSession, sentCurrent, fresh >>

\* onSpeechError: setIsRecording(false)
onSpeechError ==
  /\ Active(session)
  /\ session' = Failed
  /\ isRecording' = FALSE
  /\ UNCHANGED << messages, isLoading, textToProcess, textRef, held, now, nSessions,
                  stops, timers, requests, alerts, spoken, msgX, textSession,
                  refSession, sentCurrent, fresh >>

\* e.value && e.value.length > 0
HasValue(e) == "value" \in DOMAIN e /\ Len(e.value) > 0

\* A wrong handler that appends the result to the text it holds.
ResultTextAppended(prev, e) == IF HasValue(e) THEN prev \o e.value[1] ELSE prev

\* The text held after onSpeechResults(e):
\* if (e.value && e.value.length > 0) setTextToProcess(e.value[0])
ResultText(prev, e) == IF HasValue(e) THEN e.value[1] ELSE prev

\* onSpeechResults(e)
onSpeechResults ==
  \E e \in ResultEvents :
    /\ session.status = "started"
    /\ textToProcess' = ResultText(textToProcess, e)
    /\ textSession' = IF HasValue(e) THEN nSessions ELSE textSession
    /\ fresh' = (fresh \/ HasValue(e))
    /\ UNCHANGED << messages, isRecording, isLoading, textRef, held, now, session,
                    nSessions, stops, timers, requests, alerts, spoken, msgX,
                    refSession, sentCurrent >>

\* useEffect(() => { textRef.current = textToProcess }, [textToProcess]):
\* runs after the render that follows a change of textToProcess.
SyncRef ==
  /\ textRef # textToProcess \/ refSession # textSession
  /\ textRef' = textToProcess
  /\ refSession' = textSession
  /\ UNCHANGED << messages, isRecording, isLoading, textToProcess, held, now,
                  session, nSessions, stops, timers, requests, alerts, spoken,
                  msgX, textSession, sentCurrent, fresh >>

\* ------------------------------------------------------------- gestures
\* Calls of startRecording that still have their Voice.start to make.
StartsToCome == Cardinality({ k \in 1..Len(stops) : stops[k].owner = "in" })

\* handlePressIn -> startRecording, up to its first await.  The button is
\* disabled while isLoading.
handlePressIn ==
  /\ ~held
  /\ ~isLoading
  /\ nSessions + StartsToCome < MaxSessions
  /\ held' = TRUE
  /\ textToProcess' = <<>>
  /\ textSession' = 0
  /\ IF isRecording
     THEN /\ stops' = Append(stops, [owner |-> "in", target |-> nSessions,
                                     emptyAtRelease |-> FALSE])
          /\ session' = VoiceStopCalled(session)
          /\ UNCHANGED << nSessions, sentCurrent >>
     ELSE /\ session' = VoiceStart
          /\ nSessions' = nSessions + 1
          /\ sentCurrent' = 0
          /\ UNCHANGED stops
  /\ UNCHANGED << messages, isRecording, isLoading, textRef, now, timers,
                  requests, alerts, spoken, msgX, refSession, fresh >>

\* startRecording after await stopRecording(): setIsRecording(false) when
\* Voice.stop resolved (a rejection is caught and logged), then Voice.start.
startRecordingResume ==
  \E ok \in BOOLEAN :
    /\ stops # <<>>
    /\ Head(stops).owner = "in"
    /\ stops' = Tail(stops)
    /\ isRecording' = IF ok THEN FALSE ELSE isRecording
    /\ session' = VoiceStart
    /\ nSessions' = nSessions + 1
    /\ sentCurrent' = 0
    /\ UNCHANGED << messages, isLoading, textToProcess, textRef, held, now, timers,
                    requests, alerts, spoken, msgX, textSession, refSession, fresh >>

\* handlePressOut up to the await inside stopRecording: Voice.stop is called.
handlePressOut ==
  /\ held
  /\ held' = FALSE
  /\ stops' = Append(stops, [owner |-> "out", target |-> nSessions,
                             emptyAtRelease |-> ~Truthy(textToProcess)])
  /\ session' = VoiceStopCalled(session)
  /\ UNCHANGED << messages, isRecording, isLoading, textToProcess, textRef, now,
                  nSessions, timers, requests, alerts, spoken, msgX, textSession,
                  refSession, sentCurrent, fresh >>

\* handlePressOut after await stopRecording(): setIsRecording(false) when
\* Voice.stop resolved, then setTimeout(..., 1000).
handlePressOutResume ==
  \E ok \in BOOLEAN :
    /\ stops # <<>>
    /\ Head(stops).owner = "out"
    /\ stops' = Tail(stops)
    /\ isRecording' = IF ok THEN FALSE ELSE isRecording
    /\ session' = VoiceStopAwaited(session, Head(stops).target)
    /\ timers' = Append(timers, [emptyAtRelease |-> Head(stops).emptyAtRelease])
    /\ UNCHANGED << messages, isLoading, textToProcess, textRef, held, now, nSessions,
                    requests, alerts, spoken, msgX, textSession, refSession, sentCurrent, fresh >>

\* The setTimeout callback: if (textRef.current) sendTextToBackend(textRef.current)
TimerFires ==
  /\ timers # <<>>
  /\ timers' = Tail(timers)
  /\ IF Truthy(textRef)
     THEN sendTextToBackend(textRef, refSession)
     ELSE UNCHANGED << isLoading, messages, msgX, textToProcess, textSession, requests,
                       sentCurrent, fresh >>
  /\ UNCHANGED << isRecording, textRef, held, now, session, nSessions, stops, alerts,
                  spoken, refSession >>

\* ------------------------------------------- sendTextToBackend, resumed
Pending(x) == x \in 1..Len(requests) /\ requests[x].outcome = "pending"

\* A wrong catch block with no finally: isLoading keeps its value.
CatchBlockNoFinally(x, msgs, xs) ==
  /\ alerts' = Append(alerts, x)
  /\ messages' = AppendMessage(msgs, ErrorMsg(now))
  /\ msgX' = Append(xs, x)
  /\ isLoading' = isLoading

\* The catch block: Alert.alert, then the system message; finally clears
\* isLoading.
CatchBlock(x, msgs, xs) ==
  /\ alerts' = Append(alerts, x)
  /\ messages' = AppendMessage(msgs, ErrorMsg(now))
  /\ msgX' = Append(xs, x)
  /\ isLoading' = FALSE

\* axios.post resolved with a body that is an object: the assistant message
\* is appended and Speech.speak is called; a throw of Speech.speak is caught
\* by the catch block.
axiosResolves ==
  \E x \in 1..Len(requests), data \in ResponseBodies, speakThrows \in BOOLEAN :
    /\ Pending(x)
    /\ requests' = [requests EXCEPT
                      ![x].outcome = IF "reply" \in DOMAIN data THEN "reply" ELSE "noReply",
                      ![x].reply = AiResponse(data)]
    /\ spoken' = Append(spoken, [x |-> x, text |-> AiResponse(data),
                                 at |-> Len(messages) + 1])
    /\ IF speakThrows
       THEN CatchBlock(x, AppendMessage(messages, AiMsg(AiResponse(data), now)),
                       Append(msgX, x))
       ELSE /\ messages' = AppendMessage(messages, AiMsg(AiResponse(data), now))
            /\ msgX' = Append(msgX, x)
            /\ isLoading' = FALSE
            /\ UNCHANGED alerts
    /\ UNCHANGED << isRecording, textToProcess, textRef, held, now, session,
                    nSessions, stops, timers, textSession, refSession, sentCurrent, fresh >>

\* axios.post rejected (network error or non-2xx status), or resolved with
\* a null body so that response.data.reply throws: the catch block runs
\* and no assistant message was appended.
axiosRejects ==
  \E x \in 1..Len(requests) :
    /\ Pending(x)
    /\ requests' = [requests EXCEPT ![x].outcome = "rejected"]
    /\ CatchBlock(x, messages, msgX)
    /\ UNCHANGED << isRecording, textToProcess, textRef, held, now, session,
                    nSessions, stops, timers, spoken, textSession, refSession, sentCurrent, fresh >>

\* Date.now() advances.
Tick ==
  /\ now < MaxClock
  /\ now' = now + 1
  /\ UNCHANGED << messages, isRecording, isLoading, textToProcess, textRef, held,
                  session, nSessions, stops, timers, requests, alerts, spoken, msgX,
                  textSession, refSession, sentCurrent, fresh >>

Next ==
  \/ handlePressIn
  \/ startRecordingResume
  \/ handlePressOut
  \/ handlePressOutResume
  \/ TimerFires
  \/ onSpeechStart
  \/ onSpeechEnd
  \/ onSpeechError
  \/ onSpeechResults
  \/ SyncRef
  \/ axiosResolves
  \/ axiosRejects

\* Date.now() is read only to number the messages: no guard depends on it.
\* Spec explores the screen at one instant of the clock; SpecClock also lets
\* the clock advance between any two steps.
Spec == Init /\ [][Next]_vars

NextClock == Next \/ Tick

SpecClock == Init /\ [][NextClock]_vars

TypeOK ==
  /\ isRecording \in BOOLEAN
  /\ isLoading \in BOOLEAN
  /\ held \in BOOLEAN
  /\ now \in 0..MaxClock
  /\ Len(msgX) = Len(messages)
  /\ Len(requests) <= MaxSessions
  /\ nSessions <= MaxSessions
  /\ fresh \in BOOLEAN
  /\ session.status \in { "none", "starting", "started", "ended", "error" }

\* A request that was issued settles: the promise of axios.post resolves or
\* rejects.
Settles == axiosResolves \/ axiosRejects

\* The recognizer closes a session it runs: it delivers the ended or the
\* error event.
Closes == onSpeechEnd \/ onSpeechError

\* The program with a backend that answers or fails every request and a
\* recognizer that closes every session.
SpecFair == Spec /\ WF_vars(Settles) /\ WF_vars(Closes)

\* ------------------------------------------------------------ the claims
\* The exchanges so far.
Exchanges == 1..Len(requests)

\* Positions of the messages that exchange x appended with the given sender.
MsgsOf(x, sender) ==
  { i \in 1..Len(messages) : msgX[i] = x /\ messages[i].sender = sender }

\* The text passed to sendTextToBackend for exchange x is the one its user
\* message shows.
TextOf(x) == messages[CHOOSE i \in MsgsOf(x, "user") : TRUE].text

\* s is a prefix of t.
IsPrefix(s, t) == Len(s) <= Len(t) /\ SubSeq(t, 1, Len(s)) = s

\* A string that is empty or only whitespace.
OnlySpaces(t) == \A k \in 1..Len(t) : t[k] = " "

\* This step is the firing of a release timer.
TimerStep == Len(timers') < Len(timers)

\* C1: at most one request is issued for the text captured in one gesture
\* cycle (one recognizer session), whichever of onSpeechEnd and the release
\* timers fire: here for the current session, whose requests sentCurrent
\* counts.
C1_AtMostOneSendPerUtterance == sentCurrent <= 1

\* C2: in every step the old messages list is a prefix of the new one.
C2_AppendOnly == [][IsPrefix(messages, messages')]_vars

C2_Witness ==
  /\ Len(messages) >= 4
  /\ \E i \in 1..Len(messages) : messages[i].sender = "ai"
  /\ \E i \in 1..Len(messages) : messages[i].sender = "system"

\* C3: an exchange whose request succeeded has exactly one user message, it
\* carries the text T the exchange was called with (the text that was
\* posted), and it stands before every assistant message of the exchange.
C3_OneUserMessageFirst ==
  \A x \in Exchanges :
    requests[x].outcome \in { "reply", "noReply" } =>
      /\ Cardinality(MsgsOf(x, "user")) = 1
      /\ \A i \in MsgsOf(x, "user") :
           /\ messages[i].text = requests[x].body.text
           /\ messages[i].text \in ResultTexts
           /\ \A j \in MsgsOf(x, "ai") : i < j

C3_Witness ==
  \E x \in Exchanges :
    /\ requests[x].outcome = "reply"
    /\ MsgsOf(x, "ai") # {}
    /\ requests[x].body.text = <<" ", "a">>

\* C4: an exchange whose request was rejected has exactly one system message,
\* with the text 'Error connecting to server.', exactly one alert, and no
\* assistant message.
C4_FailureAppendsOneSystemMessage ==
  \A x \in Exchanges :
    requests[x].outcome = "rejected" =>
      /\ Cardinality(MsgsOf(x, "system")) = 1
      /\ \A i \in MsgsOf(x, "system") : messages[i].text = ErrorText
      /\ Cardinality({ k \in 1..Len(alerts) : alerts[k] = x }) = 1
      /\ MsgsOf(x, "ai") = {}

C4_Witness ==
  \E x \in Exchanges :
    /\ requests[x].outcome = "rejected"
    /\ MsgsOf(x, "system") # {}

\* C5 as stated: the timer of a release made while the candidate text was
\* empty appends no message and issues no request when it fires.
C5_EmptyReleaseNeverSends ==
  [][TimerStep /\ Head(timers).emptyAtRelease
       => messages' = messages /\ requests' = requests]_vars

\* C5 as amended: a release timer that fires while textRef.current is empty
\* or only whitespace appends no message and issues no request.
C5_BlankAtTimerNeverSends ==
  [][TimerStep /\ OnlySpaces(textRef)
       => messages' = messages /\ requests' = requests]_vars

\* A release has run to the end, its timer has fired on a blank text and
\* nothing was sent.
C5_Witness ==
  /\ nSessions >= 1
  /\ ~held
  /\ stops = <<>>
  /\ timers = <<>>
  /\ textRef = <<" ">>
  /\ requests = <<>>
  /\ messages = <<>>

\* C6: an exchange whose reply R arrived has exactly one assistant message,
\* with text R, and exactly one Speech.speak call, with text R and made when
\* that message was already the last of the list; its request body carried
\* exactly the recognized text.
C6_ReplyAppendedThenSpoken ==
  \A x \in Exchanges :
    requests[x].outcome = "reply" =>
      /\ requests[x].reply \in Replies
      /\ Cardinality(MsgsOf(x, "ai")) = 1
      /\ \A i \in MsgsOf(x, "ai") : messages[i].text = requests[x].reply
      /\ Cardinality({ k \in 1..Len(spoken) : spoken[k].x = x }) = 1
      /\ \A k \in 1..Len(spoken) :
           spoken[k].x = x =>
             /\ spoken[k].text = requests[x].reply
             /\ spoken[k].at \in MsgsOf(x, "ai")
      /\ requests[x].body = [text |-> TextOf(x)]
      /\ TextOf(x) \in ResultTexts

C6_Witness ==
  \E x \in Exchanges :
    /\ requests[x].outcome = "reply"
    /\ \E k \in 1..Len(spoken) : spoken[k].x = x /\ spoken[k].text \in Replies
    /\ requests[x].body.text = <<" ", "a">>

\* C7: a 2xx response whose body has no reply field is handled like a
\* network error: one system message, one alert, no assistant message.
C7_MalformedBodyIsFailure ==
  \A x \in Exchanges :
    requests[x].outcome = "noReply" =>
      /\ Cardinality(MsgsOf(x, "system")) = 1
      /\ Cardinality({ k \in 1..Len(alerts) : alerts[k] = x }) = 1
      /\ MsgsOf(x, "ai") = {}

\* C8: whenever Voice.start is called while the previous session has not
\* ended, a Voice.stop() called for that session has been awaited first,
\* either earlier or by the resuming startRecording itself.
C8_StopBeforeStart ==
  [][nSessions' > nSessions =>
       \/ ~Active(session)
       \/ session.stopAwaited
       \/ /\ stops' # stops
          /\ session.stopCalled
          /\ Head(stops).target = nSessions]_vars

\* C9: the identifiers of the messages are pairwise distinct and
\* non-decreasing in insertion order.
C9_IdsDistinctAndOrdered ==
  \A i, j \in 1..Len(messages) :
    i < j => /\ messages[i].id # messages[j].id
             /\ messages[i].id <= messages[j].id

\* C10: at most one request is in flight.
C10_NoOverlappingRequests ==
  Cardinality({ x \in Exchanges : requests[x].outcome = "pending" }) <= 1

\* This step is the delivery of the ended event to onSpeechEnd.
EndStep == Active(session) /\ session'.status = "ended"

\* This step is the delivery of the error event to onSpeechError.
ErrorStep == Active(session) /\ session'.status = "error"

\* This step issues a request.
SendStep == Len(requests') > Len(requests)

\* C11: when the ended event is delivered while the candidate text held is
\* not blank, onSpeechEnd issues a request with that text.
C11_EndOfSpeechSends ==
  [][(EndStep /\ ~OnlySpaces(textToProcess)) =>
       /\ Len(requests') = Len(requests) + 1
       /\ requests'[Len(requests')].body = RequestBody(textToProcess)]_vars

\* C12: while a request is in flight, isLoading is true.
C12_LoadingWhileInFlight ==
  (\E x \in Exchanges : Pending(x)) => isLoading

\* A recognition error was delivered or a remote call failed.
Failure ==
  \/ session.status = "error"
  \/ \E x \in Exchanges : requests[x].outcome = "rejected"

\* C13: after a recognition error or a failed remote call the program
\* eventually has isLoading = false and isRecording = false.
C13_FailureRecoversToIdle == Failure ~> (~isLoading /\ ~isRecording)

\* A recognition error and a failed call have happened and the program is idle.
C13_Witness ==
  /\ session.status = "error"
  /\ \E x \in Exchanges : requests[x].outcome = "rejected"
  /\ ~isLoading
  /\ ~isRecording

\* C14: onSpeechError sets isRecording to false and leaves the messages,
\* isLoading and the candidate text as they are; it issues no request and
\* shows no alert.
C14_ErrorOnlyClearsRecording ==
  [][ErrorStep =>
       /\ isRecording' = FALSE
       /\ UNCHANGED << messages, isLoading, textToProcess, requests, alerts >>]_vars

\* The error event was delivered while a candidate text was held and a
\* request was in flight.
C14_Witness ==
  /\ session.status = "error"
  /\ textToProcess # <<>>
  /\ isLoading
  /\ \E x \in Exchanges : Pending(x)

\* This step is a press of the button.
PressStep == held' /\ ~held

\* C15: the candidate text is replaced, never appended to: a press sets it
\* to the empty string, and every other change of it that is not the
\* clearing by a send sets it to the first element of the value list of a
\* result event, whatever it was before; a result event with an empty or
\* missing value list does not change it.
C15_CandidateReplaced ==
  [][/\ PressStep => textToProcess' = <<>>
     /\ (textToProcess' # textToProcess /\ ~PressStep /\ ~SendStep) =>
          /\ session.status = "started"
          /\ \E e \in ResultEvents :
               /\ "value" \in DOMAIN e
               /\ Len(e.value) > 0
               /\ textToProcess' = Head(e.value)]_vars

\* A result replaced a longer candidate text: textRef still holds the
\* earlier, longer text of the same session.
C15_Witness ==
  /\ textToProcess = <<" ">>
  /\ textRef = <<" ", "a">>
  /\ textSession = refSession
  /\ textSession = nSessions

\* C16: no request is issued while the button is held.
C16_NoSendWhileHeld == [][SendStep => ~held]_vars

\* C17: once a request was issued, a release timer that fires with no
\* result event delivered since the last request issues no request and
\* appends no message.
C17_TimerSendsNothingOld ==
  [][(TimerStep /\ requests # <<>> /\ ~fresh) =>
       UNCHANGED << requests, messages >>]_vars

\* The number of messages with the given sender.
CountOf(sender) ==
  Cardinality({ i \in 1..Len(messages) : messages[i].sender = sender })

\* C18: the assistant and system messages together are never more than the
\* user messages, and as many when no request is in flight.
C18_OneTerminalMessagePerExchange ==
  /\ CountOf("ai") + CountOf("system") <= CountOf("user")
  /\ (\A x \in Exchanges : ~Pending(x)) =>
       CountOf("ai") + CountOf("system") = CountOf("user")

\* C19: once the button is released, every Voice.stop has settled and the
\* recognizer has closed the session, isRecording is false.
C19_IndicatorFollowsSession ==
  (~held /\ stops = <<>> /\ session.status \in { "ended", "error" }) => ~isRecording

\* A session was released and closed while a timer of the release is
\* still to fire.
C19_Witness ==
  /\ ~held
  /\ stops = <<>>
  /\ session.status = "ended"
  /\ timers # <<>>
  /\ ~isRecording

====
